---- MODULE Spec2Model ----
(***************************************************************************)
(* A model of src/rebind.rs: one run of the webhook rebinder.              *)
(*                                                                         *)
(* A string is a sequence of pieces.  Where the code looks inside a string *)
(* (split(':'), to_ascii_uppercase, URI parsing) the pieces it looks at    *)
(* are pieces of their own (":" in an addr and " " anywhere are single     *)
(* pieces, service names are spelled letter by letter); text the code only *)
(* copies is one piece.  format! and string concatenation are \o.          *)
(***************************************************************************)
EXTENDS Integers, Sequences, FiniteSets, TLC

VARIABLES
    env,        \* the process environment after dotenv(): variable -> value
    pc,         \* where main is
    exit,       \* process exit status, Running until the process ends
    clock,      \* seconds slept so far
    tg_secret,  \* main's local tg_secret
    src,        \* index into NGROK_APIS of the source the loop is at
    urls,       \* the HashMap of get_public_urls: service name -> public URL
    todo,       \* keys the loop `for (name, url) in urls` has not yielded yet
    cur,        \* the service whose POST is in flight
    net,        \* every request handed to the HTTP client, in order
    fetched,    \* what each GET came back with, in order
    answered,   \* what each POST came back with, in order
    log,        \* lines written to stdout and stderr, in order
    run,        \* which invocation of the program this is, counted from 1
    prev        \* what the invocation before this one sent, received and returned

\* what is outside the process: the run counter and the record of the last run
outside == <<run, prev>>

vars == <<env, pc, exit, clock, tg_secret, src, urls, todo, cur, net, fetched, answered, log, run, prev>>

(***************************************************************************)
(* Static tables                                                           *)
(***************************************************************************)
gpt4o == <<"g", "p", "t", "4", "o">>
mixtral == <<"m", "i", "x", "t", "r", "a", "l">>
deepseek == <<"d", "e", "e", "p", "s", "e", "e", "k">>

\* (port, name) pairs
PORT_TO_NAME ==
    << <<(<<"9977">>), gpt4o>>,
       <<(<<"9988">>), mixtral>>,
       <<(<<"9966">>), deepseek>> >>

\* (label, api) pairs
NGROK_APIS ==
    << <<"main", (<<"http", ":", "//localhost", ":", "4040/api/tunnels">>)>>,
       <<"alt", (<<"http", ":", "//localhost", ":", "4041/api/tunnels">>)>> >>

Names == {PORT_TO_NAME[i][2] : i \in 1..Len(PORT_TO_NAME)}

Running == -1
PanicStatus == 101
WarmUpSecs == 2

(***************************************************************************)
(* String helpers                                                          *)
(***************************************************************************)
Letters ==
    [a |-> "A", d |-> "D", e |-> "E", g |-> "G", i |-> "I", k |-> "K",
     l |-> "L", m |-> "M", o |-> "O", p |-> "P", r |-> "R", s |-> "S",
     t |-> "T", x |-> "X"]

\* str::to_ascii_uppercase
ToAsciiUppercase(s) ==
    [j \in 1..Len(s) |-> IF s[j] \in DOMAIN Letters THEN Letters[s[j]] ELSE s[j]]

\* addr.split(':').next(): the first segment instead of the last
SplitFirst(s) ==
    LET colons == {j \in 1..Len(s) : s[j] = ":"}
        k == IF colons = {} THEN Len(s) + 1 ELSE CHOOSE j \in colons : \A q \in colons : j <= q
    IN  SubSeq(s, 1, k - 1)

\* addr.rsplit_once(':'): what follows the last ":", nothing when there is none
SplitAfterColon(s) ==
    LET colons == {j \in 1..Len(s) : s[j] = ":"}
    IN  IF colons = {} THEN <<>>
        ELSE SubSeq(s, (CHOOSE j \in colons : \A q \in colons : q <= j) + 1, Len(s))

\* addr.split(':').last(): the pieces after the last ":" (split always yields
\* at least one segment, so last() is never None)
SplitLast(s) ==
    LET colons == {j \in 1..Len(s) : s[j] = ":"}
        k == IF colons = {} THEN 0 ELSE CHOOSE j \in colons : \A q \in colons : q <= j
    IN  SubSeq(s, k + 1, Len(s))

\* str::parse::<Uri>() / Uri::try_from succeed: no byte outside the URI set
ParsesAsUri(s) == s # <<>> /\ \A j \in 1..Len(s) : s[j] # " "

\* StatusCode::is_success
IsSuccess(status) == 200 <= status /\ status < 300

\* PORT_TO_NAME.iter().find(|(p, _)| *p == port): index of the first hit, 0 if none
FindPort(port) ==
    LET hits == {j \in 1..Len(PORT_TO_NAME) : PORT_TO_NAME[j][1] = port}
    IN  IF hits = {} THEN 0 ELSE CHOOSE j \in hits : \A q \in hits : j <= q

(***************************************************************************)
(* The environment                                                         *)
(***************************************************************************)
Absent == [st |-> "absent", val |-> <<>>]
NotUnicode == [st |-> "notunicode", val |-> <<>>]
Present(s) == [st |-> "set", val |-> s]

\* env::var(key): Ok(value) or Err
EnvVar(key) ==
    IF key \in DOMAIN env /\ env[key].st = "set"
    THEN [ok |-> TRUE, val |-> env[key].val]
    ELSE [ok |-> FALSE, val |-> <<>>]

TG_SECRET == <<"TG_SECRET">>

\* format!("BOT_TOKEN_{}", bot_name.to_ascii_uppercase())
TokenVar(bot_name) == <<"BOT_TOKEN_">> \o ToAsciiUppercase(bot_name)

(***************************************************************************)
(* JSON values and HTTP responses                                          *)
(***************************************************************************)
\* a JSON field after .as_str(): a string, missing, or present with another type
Missing == [kind |-> "missing", s |-> <<>>]
NotAString == [kind |-> "other", s |-> <<>>]
JStr(s) == [kind |-> "string", s |-> s]

\* one element of "tunnels": public_url and config.addr
Tunnel(u, a) == [public_url |-> u, addr |-> a]

NoBody == [readable |-> FALSE, json |-> FALSE, array |-> FALSE, list |-> <<>>, text |-> <<>>]

\* client.get / client.request returned Err(err)
TransportError == [err |-> TRUE, errtext |-> <<"connection refused">>, status |-> 0, body |-> NoBody]

\* a response with a status line; body as to_bytes and serde_json see it
Response(status, body) == [err |-> FALSE, errtext |-> <<>>, status |-> status, body |-> body]
UnreadableBody == NoBody
NotJson == [NoBody EXCEPT !.readable = TRUE, !.text = <<"<html>">>]
NoTunnelsArray == [NoBody EXCEPT !.readable = TRUE, !.json = TRUE]
TunnelsBody(list) == [NoBody EXCEPT !.readable = TRUE, !.json = TRUE, !.array = TRUE, !.list = list]
TextBody(text) == [NoBody EXCEPT !.readable = TRUE, !.text = text]

(***************************************************************************)
(* get_public_urls, the part that runs on one response                     *)
(***************************************************************************)
EmptyMap == [x \in {} |-> <<>>]

\* entry(k).or_insert(v): an existing entry is kept
InsertIfAbsent(m, k, v) == [x \in DOMAIN m \cup {k} |-> IF x \in DOMAIN m THEN m[x] ELSE v]

\* HashMap::insert
Insert(m, k, v) == [x \in DOMAIN m \cup {k} |-> IF x = k THEN v ELSE m[x]]

\* the body of `for t in tunnels`
InsertTunnel(m, t) ==
    IF t.public_url.kind = "string" /\ t.addr.kind = "string"
    THEN LET port == SplitLast(t.addr.s)
             hit == FindPort(port)
         IN  IF hit # 0 THEN Insert(m, PORT_TO_NAME[hit][2], t.public_url.s) ELSE m
    ELSE m

RECURSIVE FoldUntilMalformed(_, _)
\* `for t in tunnels` left at the first tunnel that lacks a field
FoldUntilMalformed(m, list) ==
    IF list = <<>> THEN m
    ELSE IF Head(list).public_url.kind = "string" /\ Head(list).addr.kind = "string"
         THEN FoldUntilMalformed(InsertTunnel(m, Head(list)), Tail(list))
         ELSE m

RECURSIVE FoldTunnels(_, _)
\* `for t in tunnels`, in listed order
FoldTunnels(m, list) ==
    IF list = <<>> THEN m ELSE FoldTunnels(InsertTunnel(m, Head(list)), Tail(list))

\* the response yields a tunnels array: every `if let` down to line 29 matches
Healthy(r) ==
    /\ ~r.err
    /\ IsSuccess(r.status)
    /\ r.body.readable
    /\ r.body.json
    /\ r.body.array

\* a failed source ends discovery with nothing
DiscoveredOrNothing(m, r) == IF Healthy(r) THEN FoldTunnels(m, r.body.list) ELSE EmptyMap

\* the map built anew for each source that answers
DiscoveredFresh(m, r) == IF Healthy(r) THEN FoldTunnels(EmptyMap, r.body.list) ELSE m

\* the map after the match on one source's response
Discovered(m, r) == IF Healthy(r) THEN FoldTunnels(m, r.body.list) ELSE m

Line(stream, event, who, status, text) ==
    [stream |-> stream, event |-> event, who |-> who, status |-> status, text |-> text]

\* what the match on one source's response prints
DiscoveryLog(label, r) ==
    IF r.err THEN <<Line("stderr", "error", <<label>>, 0, r.errtext)>>
    ELSE IF ~IsSuccess(r.status) THEN <<Line("stderr", "request failed", <<label>>, r.status, <<>>)>>
    ELSE <<>>

(***************************************************************************)
(* bind_webhook, its pure parts                                            *)
(***************************************************************************)
\* the match on env::var(&token_var): the token, or nothing when the variable
\* is unset, not unicode or empty
Token(bot_name) ==
    LET r == EnvVar(TokenVar(bot_name))
    IN  IF r.ok /\ r.val # <<>> THEN [some |-> TRUE, val |-> r.val]
        ELSE [some |-> FALSE, val |-> <<>>]

\* the public URL sent as it is
WebhookUrlBare(url) == url

\* format!("{}/webhook", url)
WebhookUrl(url) == url \o <<"/webhook">>

\* format!("https://api.telegram.org/bot{}/setWebhook", token)
Endpoint(token) == <<"https://api.telegram.org/bot">> \o token \o <<"/setWebhook">>

\* a request handed to the client; svc is the service it is sent for ("" for a GET)
Get(uri) == [method |-> "GET", uri |-> uri, svc |-> <<>>, url |-> <<>>, secret_token |-> <<>>]

\* the POST of bind_webhook with its JSON payload {"url", "secret_token"}
Post(bot_name, token, url, secret) ==
    [method |-> "POST", uri |-> Endpoint(token), svc |-> bot_name,
     url |-> WebhookUrl(url), secret_token |-> secret]

\* every answered POST printed as bound, whatever its status
BindLogAnyOk(bot_name, url, r) ==
    IF r.err THEN Line("stderr", "error", bot_name, 0, r.errtext)
    ELSE Line("stdout", "Bound", bot_name, r.status, url \o <<"/webhook">>)

\* what the match on the POST's result prints
BindLog(bot_name, url, r) ==
    IF r.err THEN Line("stderr", "error", bot_name, 0, r.errtext)
    ELSE IF IsSuccess(r.status) THEN Line("stdout", "Bound", bot_name, r.status, WebhookUrl(url))
    ELSE Line("stderr", "Failed", bot_name, r.status,
              IF r.body.readable THEN r.body.text ELSE <<>>)

(***************************************************************************)
(* main                                                                    *)
(***************************************************************************)
\* env::var("TG_SECRET").unwrap_or_default(): the run goes on with ""
SecretDefaulted ==
    /\ pc = "init"
    /\ ~EnvVar(TG_SECRET).ok
    /\ tg_secret' = <<>>
    /\ pc' = "sleep"
    /\ UNCHANGED <<outside, env, exit, clock, src, urls, todo, cur, net, fetched, answered, log>>

\* env::var("TG_SECRET").expect(..) panics
SecretMissing ==
    /\ pc = "init"
    /\ ~EnvVar(TG_SECRET).ok
    /\ pc' = "exited"
    /\ exit' = PanicStatus
    /\ log' = Append(log, Line("stderr", "panic", <<>>, 0, <<"TG_SECRET not set">>))
    /\ UNCHANGED <<outside, env, clock, tg_secret, src, urls, todo, cur, net, fetched, answered>>

\* env::var("TG_SECRET") is Ok: keep the value, print the banner
SecretRead ==
    /\ pc = "init"
    /\ EnvVar(TG_SECRET).ok
    /\ tg_secret' = EnvVar(TG_SECRET).val
    /\ log' = Append(log, Line("stdout", "Rebinding", <<>>, 0, <<>>))
    /\ pc' = "sleep"
    /\ UNCHANGED <<outside, env, exit, clock, src, urls, todo, cur, net, fetched, answered>>

\* the sleep left out
NoWarmUp ==
    /\ pc = "sleep"
    /\ urls' = EmptyMap
    /\ src' = 1
    /\ pc' = "discover"
    /\ UNCHANGED <<outside, env, exit, clock, tg_secret, todo, cur, net, fetched, answered, log>>

\* sleep(2 s), build the client, enter get_public_urls with an empty map
WarmUp ==
    /\ pc = "sleep"
    /\ clock' = clock + WarmUpSecs
    /\ urls' = EmptyMap
    /\ src' = 1
    /\ pc' = "discover"
    /\ UNCHANGED <<outside, env, exit, tg_secret, todo, cur, net, fetched, answered, log>>

\* the GET is sent and not awaited: the loop goes on to the next source
SendGetNoWait ==
    /\ pc = "discover"
    /\ src <= Len(NGROK_APIS)
    /\ net' = Append(net, Get(NGROK_APIS[src][2]))
    /\ src' = src + 1
    /\ UNCHANGED <<outside, env, pc, exit, clock, tg_secret, urls, todo, cur, fetched, answered, log>>

\* the next source of `for (label, api) in NGROK_APIS`: parse its URI and send
\* the GET, or report an invalid URI and go on
SendGet ==
    /\ pc = "discover"
    /\ src <= Len(NGROK_APIS)
    /\ LET api == NGROK_APIS[src][2]
       IN  IF ParsesAsUri(api)
           THEN /\ net' = Append(net, Get(api))
                /\ pc' = "get_wait"
                /\ UNCHANGED <<src, log>>
           ELSE /\ log' = Append(log, Line("stderr", "Invalid URI", api, 0, <<>>))
                /\ src' = src + 1
                /\ UNCHANGED <<net, pc>>
    /\ UNCHANGED <<outside, env, exit, clock, tg_secret, urls, todo, cur, fetched, answered>>

\* a failed source is asked again
RecvGetRetry(responses) ==
    /\ pc = "get_wait"
    /\ \E r \in responses :
        /\ urls' = Discovered(urls, r)
        /\ log' = log \o DiscoveryLog(NGROK_APIS[src][1], r)
        /\ fetched' = Append(fetched, r)
        /\ src' = IF Healthy(r) THEN src + 1 ELSE src
    /\ pc' = "discover"
    /\ UNCHANGED <<outside, env, exit, clock, tg_secret, todo, cur, net, answered>>

\* the GET comes back with r: fold its tunnels into urls or report the failure
RecvGet(responses) ==
    /\ pc = "get_wait"
    /\ \E r \in responses :
        /\ urls' = Discovered(urls, r)
        /\ log' = log \o DiscoveryLog(NGROK_APIS[src][1], r)
        /\ fetched' = Append(fetched, r)
    /\ src' = src + 1
    /\ pc' = "discover"
    /\ UNCHANGED <<outside, env, exit, clock, tg_secret, todo, cur, net, answered>>

\* get_public_urls returns; main starts `for (name, url) in urls`
EndDiscovery ==
    /\ pc = "discover"
    /\ src > Len(NGROK_APIS)
    /\ todo' = DOMAIN urls
    /\ pc' = "bind"
    /\ UNCHANGED <<outside, env, exit, clock, tg_secret, src, urls, cur, net, fetched, answered, log>>

\* bind_webhook for the next key the HashMap yields (any order): no token
BindNoToken ==
    /\ pc = "bind"
    /\ \E name \in todo :
        /\ ~Token(name).some
        /\ log' = Append(log, Line("stderr", "No token", name, 0, <<>>))
        /\ todo' = todo \ {name}
    /\ UNCHANGED <<outside, env, pc, exit, clock, tg_secret, src, urls, cur, net, fetched, answered>>

\* bind_webhook: Request::builder().uri(endpoint)...body(..).unwrap() panics
\* when the endpoint built from the token is no URI
BindPanic ==
    /\ pc = "bind"
    /\ \E name \in todo :
        /\ Token(name).some
        /\ ~ParsesAsUri(Endpoint(Token(name).val))
        /\ log' = Append(log, Line("stderr", "panic", name, 0, <<"invalid uri character">>))
    /\ pc' = "exited"
    /\ exit' = PanicStatus
    /\ UNCHANGED <<outside, env, clock, tg_secret, src, urls, todo, cur, net, fetched, answered>>

\* bind_webhook: the POST is sent
SendPost ==
    /\ pc = "bind"
    /\ \E name \in todo :
        /\ Token(name).some
        /\ ParsesAsUri(Endpoint(Token(name).val))
        /\ net' = Append(net, Post(name, Token(name).val, urls[name], tg_secret))
        /\ cur' = name
        /\ todo' = todo \ {name}
    /\ pc' = "post_wait"
    /\ UNCHANGED <<outside, env, exit, clock, tg_secret, src, urls, fetched, answered, log>>

\* a service whose bind did not succeed is dropped from the map
RecvPostForget(responses) ==
    /\ pc = "post_wait"
    /\ \E r \in responses :
        /\ log' = Append(log, BindLog(cur, urls[cur], r))
        /\ answered' = Append(answered, r)
        /\ urls' = IF ~r.err /\ IsSuccess(r.status) THEN urls
                   ELSE [n \in DOMAIN urls \ {cur} |-> urls[n]]
    /\ cur' = <<>>
    /\ pc' = "bind"
    /\ UNCHANGED <<outside, env, exit, clock, tg_secret, src, todo, net, fetched>>

\* bind_webhook: the POST comes back with r; print the outcome and return
RecvPost(responses) ==
    /\ pc = "post_wait"
    /\ \E r \in responses :
        /\ log' = Append(log, BindLog(cur, urls[cur], r))
        /\ answered' = Append(answered, r)
    /\ cur' = <<>>
    /\ pc' = "bind"
    /\ UNCHANGED <<outside, env, exit, clock, tg_secret, src, urls, todo, net, fetched>>

\* the loop over urls is over: main returns
Finish ==
    /\ pc = "bind"
    /\ todo = {}
    /\ pc' = "exited"
    /\ exit' = 0
    /\ UNCHANGED <<outside, env, clock, tg_secret, src, urls, todo, cur, net, fetched, answered, log>>

(***************************************************************************)
(* Inputs: environments and responses                                      *)
(***************************************************************************)
MaxTunnels == 2

urlA == <<"https://a.example">>
urlB == <<"https://b.example">>
Addr(port) == <<"127.0.0.1", ":", port>>

SecretValues == {Absent, NotUnicode, Present(<<>>), Present(<<"s3cret">>)}

\* unset, empty, a token, a token with a space in it
TokenValues(name) ==
    {Absent, Present(<<>>), Present(<<"1:">> \o name), Present(<<"1:", " ">> \o name)}

EnvKeys == {TG_SECRET} \cup {TokenVar(n) : n \in Names}

Envs ==
    {e \in [EnvKeys -> SecretValues \cup UNION {TokenValues(n) : n \in Names}] :
        /\ e[TG_SECRET] \in SecretValues
        /\ \A n \in Names : e[TokenVar(n)] \in TokenValues(n)}

\* environments of the runs that only exercise discovery: no token set
DiscEnvs ==
    {e \in Envs : /\ e[TG_SECRET] \in {Absent, Present(<<"s3cret">>)}
                  /\ \A n \in Names : e[TokenVar(n)] = Absent}

TunnelLists(tunnels, n) == UNION {[1..k -> tunnels] : k \in 0..n}

\* tunnels of the whole-run specification: the three mapped ports, one of them
\* under two URLs, and an unmapped port
RunLists ==
    LET a77 == Tunnel(JStr(urlA), JStr(Addr("9977")))
        b77 == Tunnel(JStr(urlB), JStr(Addr("9977")))
        a88 == Tunnel(JStr(urlA), JStr(Addr("9988")))
        b66 == Tunnel(JStr(urlB), JStr(Addr("9966")))
        b12 == Tunnel(JStr(urlB), JStr(Addr("1234")))
    IN  {<<>>, <<a77>>, <<b77>>, <<a77, b77>>, <<b77, a77>>, <<a88, b66>>, <<b12>>}

RunGetResponses ==
    {TransportError, Response(404, TextBody(<<"not found">>))}
        \cup {Response(200, TunnelsBody(l)) : l \in RunLists}

\* tunnels of the discovery specification: a mapped port, an addr without
\* ':', with several, ending in ':', a port that only starts like a mapped
\* one, and tunnels lacking a field or carrying it with another type
DiscTunnels ==
    {Tunnel(JStr(urlA), JStr(Addr("9977"))),
     Tunnel(JStr(urlB), JStr(<<"9977">>)),
     Tunnel(JStr(urlB), JStr(<<"http", ":", "//localhost", ":", "9966">>)),
     Tunnel(JStr(urlA), JStr(Addr("99770"))),
     Tunnel(JStr(urlB), JStr(<<"9977", ":">>)),
     Tunnel(Missing, JStr(Addr("9977"))),
     Tunnel(JStr(urlA), NotAString)}

DiscGetResponses ==
    {TransportError,
     Response(500, TextBody(<<"error">>)),
     Response(301, TunnelsBody(<<Tunnel(JStr(urlA), JStr(Addr("9966")))>>)),
     Response(200, UnreadableBody),
     Response(200, NotJson),
     Response(200, NoTunnelsArray),
     Response(204, TunnelsBody(<<Tunnel(JStr(urlB), JStr(Addr("9988")))>>))}
        \cup {Response(200, TunnelsBody(l)) : l \in TunnelLists(DiscTunnels, MaxTunnels)}

PostResponses ==
    {TransportError,
     Response(200, TextBody(<<"{\"ok\":true}">>)),
     Response(401, TextBody(<<"Unauthorized">>)),
     Response(502, UnreadableBody)}

(***************************************************************************)
(* Specifications                                                          *)
(***************************************************************************)
NoRun == [net |-> <<>>, fetched |-> <<>>, exit |-> Running]

Start(envs) ==
    /\ env \in envs
    /\ run = 1
    /\ prev = NoRun
    /\ pc = "init"
    /\ exit = Running
    /\ clock = 0
    /\ tg_secret = <<>>
    /\ src = 1
    /\ urls = EmptyMap
    /\ todo = {}
    /\ cur = <<>>
    /\ net = <<>>
    /\ fetched = <<>>
    /\ answered = <<>>
    /\ log = <<>>

Init == Start(Envs)

Next ==
    \/ SecretMissing
    \/ SecretRead
    \/ WarmUp
    \/ SendGet
    \/ RecvGet(RunGetResponses)
    \/ EndDiscovery
    \/ BindNoToken
    \/ BindPanic
    \/ SendPost
    \/ RecvPost(PostResponses)
    \/ Finish

\* a whole run
Spec == Init /\ [][Next]_vars

InitDisc == Start(DiscEnvs)

NextDisc ==
    \/ SecretMissing
    \/ SecretRead
    \/ WarmUp
    \/ SendGet
    \/ RecvGet(DiscGetResponses)
    \/ EndDiscovery

\* a run up to the return of get_public_urls, over a wide set of responses
SpecDisc == InitDisc /\ [][NextDisc]_vars

MaxRuns == 2

\* the program is invoked again with the same environment: a fresh process,
\* nothing of the last one left but what the outside recorded of it
Rerun ==
    /\ pc = "exited"
    /\ run < MaxRuns
    /\ run' = run + 1
    /\ prev' = [net |-> net, fetched |-> fetched, exit |-> exit]
    /\ pc' = "init"
    /\ exit' = Running
    /\ clock' = 0
    /\ tg_secret' = <<>>
    /\ src' = 1
    /\ urls' = EmptyMap
    /\ todo' = {}
    /\ cur' = <<>>
    /\ net' = <<>>
    /\ fetched' = <<>>
    /\ answered' = <<>>
    /\ log' = <<>>
    /\ UNCHANGED env

\* environments of the two-run specification
RerunEnvs ==
    {e \in Envs : /\ e[TG_SECRET] \in {Absent, Present(<<"s3cret">>)}
                  /\ e[TokenVar(gpt4o)] # Present(<<>>)
                  /\ e[TokenVar(mixtral)] # Absent
                  /\ e[TokenVar(deepseek)] = Absent}

\* the sources answer the first run freely and every later run as they
\* answered the one before
RerunGetResponses ==
    IF run = 1
    THEN {TransportError,
          Response(200, TunnelsBody(<<Tunnel(JStr(urlA), JStr(Addr("9977")))>>)),
          Response(200, TunnelsBody(<<Tunnel(JStr(urlB), JStr(Addr("9988")))>>))}
    ELSE {prev.fetched[Len(fetched) + 1]}

RerunPostResponses == {TransportError, Response(200, TextBody(<<"{\"ok\":true}">>))}

InitRerun == Start(RerunEnvs)

NextRerun ==
    \/ SecretMissing
    \/ SecretRead
    \/ WarmUp
    \/ SendGet
    \/ RecvGet(RerunGetResponses)
    \/ EndDiscovery
    \/ BindNoToken
    \/ BindPanic
    \/ SendPost
    \/ RecvPost(RerunPostResponses)
    \/ Finish
    \/ Rerun

\* runs of the program one after the other, same environment, same answers
\* of the sources
SpecRerun == InitRerun /\ [][NextRerun]_vars

(***************************************************************************)
(* Vocabulary of the properties, stated apart from the code's definitions  *)
(***************************************************************************)
SecretSet == env[TG_SECRET].st = "set"
SecretNonEmpty == SecretSet /\ env[TG_SECRET].val # <<>>
PassedSecretCheck == pc # "init" /\ ~(pc = "exited" /\ clock = 0)

UpperName(n) ==
    IF n = gpt4o THEN <<"G", "P", "T", "4", "O">>
    ELSE IF n = mixtral THEN <<"M", "I", "X", "T", "R", "A", "L">>
    ELSE <<"D", "E", "E", "P", "S", "E", "E", "K">>

\* BOT_TOKEN_<UPPERCASED NAME> is set and not empty
HasCredential(n) ==
    LET v == env[<<"BOT_TOKEN_">> \o UpperName(n)]
    IN  v.st = "set" /\ v.val # <<>>

PortOfName(n) == CHOOSE p \in {PORT_TO_NAME[j][1] : j \in 1..Len(PORT_TO_NAME)} :
                    \E j \in 1..Len(PORT_TO_NAME) : PORT_TO_NAME[j] = <<p, n>>

\* port is what follows the last ':' of addr (all of addr when it has none)
PortIs(addr, port) ==
    \E k \in 0..Len(addr) :
        /\ k = 0 \/ addr[k] = ":"
        /\ \A j \in (k + 1)..Len(addr) : addr[j] # ":"
        /\ SubSeq(addr, k + 1, Len(addr)) = port

\* the source answered 2xx with a JSON body holding a tunnels array
Parsed(r) ==
    /\ ~r.err
    /\ r.status \in 200..299
    /\ r.body.readable /\ r.body.json /\ r.body.array

\* tunnel t carries both strings and its port is the port of service n
TunnelOf(t, n) ==
    /\ t.public_url.kind = "string"
    /\ t.addr.kind = "string"
    /\ PortIs(t.addr.s, PortOfName(n))

\* response r lists a tunnel of service n
Reports(r, n) == Parsed(r) /\ \E i \in 1..Len(r.body.list) : TunnelOf(r.body.list[i], n)

RECURSIVE Listed(_)
\* the tunnels of the parsed responses, in the order sources and tunnels come
Listed(rs) ==
    IF rs = <<>> THEN <<>>
    ELSE (IF Parsed(Head(rs)) THEN Head(rs).body.list ELSE <<>>) \o Listed(Tail(rs))

\* the public_url of the last listed tunnel of service n
LastUrl(n) ==
    LET all == Listed(fetched)
        at == {i \in 1..Len(all) : TunnelOf(all[i], n)}
        last == CHOOSE i \in at : \A j \in at : j <= i
    IN  all[last].public_url.s

Gets == {i \in 1..Len(net) : net[i].method = "GET"}
Posts == {i \in 1..Len(net) : net[i].method = "POST"}
PostsFor(n) == {i \in Posts : net[i].svc = n}

(***************************************************************************)
(* C1..C10                                                                 *)
(***************************************************************************)
\* C1: when TG_SECRET is absent from the environment the run aborts: it never
\* gets past the secret check, ends with the panic status, and no request
\* (GET or POST) is ever issued.
C1_NoSecretNoNetwork ==
    env[TG_SECRET] = Absent =>
        /\ net = <<>>
        /\ pc \in {"init", "exited"}
        /\ pc = "exited" => exit = PanicStatus /\ clock = 0

C1_Witness ==
    /\ env[TG_SECRET] = Absent
    /\ pc = "exited"
    /\ exit = PanicStatus
    /\ net = <<>>

\* C2: the run aborts before the warm-up and before any request when TG_SECRET
\* is unset or empty; only a non-empty secret gets a run past Init.
C2_AbortsUnlessSecretNonEmpty ==
    (pc # "init" /\ ~SecretNonEmpty) =>
        /\ pc = "exited"
        /\ exit = PanicStatus
        /\ clock = 0
        /\ net = <<>>

\* C3: a service name is a key of the discovery result iff some tunnel with
\* both public_url and config.addr, in some fetched and parsed source, has
\* an addr whose port equals the service's port in PORT_TO_NAME; no other key
\* ever appears.
C3_KeyIffPortMatches ==
    /\ DOMAIN urls \subseteq Names
    /\ \A n \in Names :
        n \in DOMAIN urls <=> \E i \in 1..Len(fetched) : Reports(fetched[i], n)

C3_Witness ==
    /\ pc = "bind"
    /\ gpt4o \in DOMAIN urls
    /\ mixtral \notin DOMAIN urls
    /\ \E i \in 1..Len(fetched) :
        /\ Parsed(fetched[i])
        /\ \E j \in 1..Len(fetched[i].body.list) :
            LET t == fetched[i].body.list[j]
            IN  t.addr.kind = "string" /\ t.addr.s = Addr("99770")

\* C4: however a source fails, every configured source is queried once and
\* every tunnel of a mapped port listed by any parsed source is a key of
\* the discovery result.
C4_FaultIsolation ==
    pc = "bind" =>
        /\ Len(fetched) = Len(NGROK_APIS)
        /\ \A i \in 1..Len(NGROK_APIS) :
            Cardinality({g \in Gets : net[g].uri = NGROK_APIS[i][2]}) = 1
        /\ \A i \in 1..Len(fetched) : \A n \in Names :
            Reports(fetched[i], n) => n \in DOMAIN urls

C4_Witness ==
    /\ pc = "bind"
    /\ Reports(fetched[1], gpt4o)
    /\ ~Parsed(fetched[2])
    /\ gpt4o \in DOMAIN urls

\* C5: the URL the mapping holds for a service is the public_url of the tunnel
\* of that service processed last (sources in configured order, tunnels in
\* listed order), and a service gets at most one bind, for that URL.
C5_LastWriteWins ==
    /\ \A i \in 1..Cardinality(Gets) : \E g \in Gets :
        /\ Cardinality({h \in Gets : h <= g}) = i
        /\ net[g].uri = NGROK_APIS[i][2]
    /\ \A n \in DOMAIN urls : urls[n] = LastUrl(n)
    /\ \A n \in Names :
        /\ Cardinality(PostsFor(n)) <= 1
        /\ \A p \in PostsFor(n) : net[p].url = LastUrl(n) \o <<"/webhook">>

C5_Witness ==
    /\ pc = "exited"
    /\ exit = 0
    /\ Len(fetched) = 2
    /\ Reports(fetched[1], gpt4o) /\ fetched[1].body.list[1].public_url.s = urlA
    /\ Reports(fetched[2], gpt4o) /\ fetched[2].body.list[1].public_url.s = urlB
    /\ Cardinality(Posts) = 1
    /\ \A p \in Posts : net[p].url = urlB \o <<"/webhook">>

\* C6: a discovered service without a credential gets no bind request, the
\* run does not fail, and every other discovered service with a credential is
\* bound.
C6_MissingCredentialIsContained ==
    (pc = "exited" /\ PassedSecretCheck /\ SecretNonEmpty) =>
        \A n \in DOMAIN urls :
            ~HasCredential(n) =>
                /\ PostsFor(n) = {}
                /\ exit = 0
                /\ \A m \in DOMAIN urls \ {n} : HasCredential(m) => PostsFor(m) # {}

\* C7: every bind request carries url = the service's discovered public URL
\* followed by "/webhook", and secret_token = the TG_SECRET of the environment.
C7_BindBody ==
    \A p \in Posts :
        /\ net[p].svc \in DOMAIN urls
        /\ net[p].url = urls[net[p].svc] \o <<"/webhook">>
        /\ net[p].secret_token = env[TG_SECRET].val

C7_Witness ==
    /\ SecretNonEmpty
    /\ Cardinality(Posts) = 2
    /\ Len(answered) = 2
    /\ ~answered[1].err /\ answered[1].status = 200
    /\ answered[2].err

\* C8: when a run that passed the secret check has ended, each service that
\* is in the mapping and has a credential got exactly one bind request, and
\* no other service got any.
C8_ExactlyOneBindEach ==
    (pc = "exited" /\ PassedSecretCheck /\ SecretNonEmpty) =>
        \A n \in Names :
            Cardinality(PostsFor(n)) = IF n \in DOMAIN urls /\ HasCredential(n) THEN 1 ELSE 0

\* C9: a run that passed the secret check ends with exit status 0; the only
\* abnormal exit is the abort on the missing secret.
C9_OnlySecretAborts ==
    /\ (pc = "exited" /\ SecretNonEmpty) => exit = 0
    /\ (pc = "exited" /\ exit # 0) => ~SecretNonEmpty /\ clock = 0 /\ net = <<>>

Phase ==
    CASE pc = "init" -> "Init"
      [] pc = "sleep" -> "WarmingUp"
      [] pc \in {"discover", "get_wait"} -> "Discovering"
      [] pc \in {"bind", "post_wait"} -> "Binding"
      [] pc = "exited" /\ exit = 0 -> "Done"
      [] OTHER -> "Aborted"

Rank(ph) ==
    CASE ph = "Init" -> 0
      [] ph = "WarmingUp" -> 1
      [] ph = "Discovering" -> 2
      [] ph = "Binding" -> 3
      [] ph = "Done" -> 4
      [] OTHER -> 5

\* C10: a step keeps the phase or moves it to the next of Init, WarmingUp,
\* Discovering, Binding, Done (or ends the run in a panic); the warm-up
\* sleep is over exactly from Discovering on, so it follows the secret check
\* and precedes the first GET.
C10_LinearPhases ==
    [][ /\ \/ Phase' = Phase
           \/ Rank(Phase') = Rank(Phase) + 1 /\ Phase' # "Aborted"
           \/ Phase' = "Aborted" /\ Phase # "Done"
        /\ Phase' \in {"Init", "WarmingUp"} => clock' = 0 /\ net' = <<>>
        /\ Phase' \in {"Discovering", "Binding", "Done"} => clock' = WarmUpSecs
        /\ net' # <<>> => clock' = WarmUpSecs
        /\ clock' # 0 => SecretSet
      ]_vars

C10_Witness ==
    /\ pc = "exited"
    /\ exit = 0
    /\ Posts # {}
    /\ clock = WarmUpSecs

(***************************************************************************)
(* C11..C20                                                                *)
(***************************************************************************)
\* requests sent and not yet answered
InFlight == Len(net) - Len(fetched) - Len(answered)

\* the GETs sent to source i
GetsTo(i) == {g \in Gets : net[g].uri = NGROK_APIS[i][2]}

\* C11: at most one request is in flight, and only while main waits for it;
\* the GETs go out in configured order, every GET is sent and answered before
\* the first POST, and a POST is sent only when every earlier one is answered.
C11_OneRequestAtATime ==
    /\ InFlight \in {0, 1}
    /\ InFlight = 1 <=> pc \in {"get_wait", "post_wait"}
    /\ \A g \in Gets : \A p \in Posts : g < p
    /\ \A g \in Gets : net[g].uri = NGROK_APIS[g][2]
    /\ Posts # {} => Len(fetched) = Cardinality(Gets) /\ src > Len(NGROK_APIS)
    /\ Len(answered) = Cardinality(Posts) - (IF pc = "post_wait" THEN 1 ELSE 0)

C11_Witness ==
    /\ pc = "post_wait"
    /\ Len(fetched) = Len(NGROK_APIS)
    /\ Cardinality(Posts) = 2
    /\ Len(answered) = 1

\* C12: no source ever gets a second GET, and once a run that passed the
\* secret check has left discovery each configured source has got exactly one,
\* also when its GET failed.
C12_OneGetPerSource ==
    \A i \in 1..Len(NGROK_APIS) :
        /\ Cardinality(GetsTo(i)) <= 1
        /\ (pc \in {"bind", "post_wait"} \/ (pc = "exited" /\ PassedSecretCheck)) =>
                Cardinality(GetsTo(i)) = 1

C12_Witness ==
    /\ pc = "exited"
    /\ exit = 0
    /\ Len(fetched) = 2
    /\ fetched[1].err
    /\ ~fetched[2].err /\ fetched[2].status = 404
    /\ Cardinality(Gets) = 2

IsPost(q) == q.method = "POST"

\* the bind requests of a run, in the order sent
Binds(reqs) == SelectSeq(reqs, IsPost)

\* C13: two runs with the same environment and the same source responses
\* issue their bind requests in the same order (stated for two runs that both
\* end normally).
C13_SameBindOrder ==
    (run = 2 /\ pc = "exited" /\ exit = 0 /\ prev.exit = 0 /\ fetched = prev.fetched) =>
        Binds(net) = Binds(prev.net)

\* C14: two runs with the same environment and the same source responses
\* issue the same set of bind requests (service, webhook URL, secret_token).
C14_SameBindSet ==
    (run = 2 /\ pc = "exited" /\ fetched = prev.fetched) =>
        {net[p] : p \in Posts} = {prev.net[p] : p \in {i \in 1..Len(prev.net) : IsPost(prev.net[i])}}

\* C15: every source whose GET failed at transport level, came back non-2xx or
\* came back with a body that is not JSON has a diagnostic line on stderr
\* naming it.
C15_EveryDiscoveryErrorLogged ==
    \A i \in 1..Len(fetched) :
        (fetched[i].err \/ fetched[i].status \notin 200..299
            \/ (fetched[i].body.readable /\ ~fetched[i].body.json)) =>
            \E k \in 1..Len(log) :
                log[k].stream = "stderr" /\ log[k].who = <<NGROK_APIS[i][1]>>

\* the request the i-th answer belongs to
PostAnswered(i) == CHOOSE p \in Posts : Cardinality({q \in Posts : q <= p}) = i

\* the lines that report the outcome of a bind of service n
OutcomeLines(n) ==
    {k \in 1..Len(log) : log[k].who = n /\ log[k].event \in {"Bound", "Failed", "error"}}

\* C16: every answered bind has exactly one outcome line; it reports success
\* iff the answer was 2xx, a failure with the response body for any other
\* status, a failure with the error text for a transport error; and the
\* request was sent once.
C16_BindOutcomeReported ==
    \A i \in 1..Len(answered) :
        LET r == answered[i]
            n == net[PostAnswered(i)].svc
        IN  /\ Cardinality(PostsFor(n)) = 1
            /\ Cardinality(OutcomeLines(n)) = 1
            /\ \A k \in OutcomeLines(n) :
                /\ log[k].event = "Bound" <=> (~r.err /\ r.status \in 200..299)
                /\ log[k].event = "Bound" => log[k].stream = "stdout"
                /\ (~r.err /\ r.status \notin 200..299) =>
                        /\ log[k].event = "Failed"
                        /\ log[k].stream = "stderr"
                        /\ log[k].text = r.body.text
                /\ r.err =>
                        /\ log[k].event = "error"
                        /\ log[k].stream = "stderr"
                        /\ log[k].text = r.errtext

C16_Witness ==
    /\ pc = "exited"
    /\ Len(answered) = 3
    /\ \E i \in 1..3 : ~answered[i].err /\ answered[i].status = 401
    /\ \E i \in 1..3 : answered[i].err
    /\ \E i \in 1..3 : ~answered[i].err /\ answered[i].status = 200
    /\ \E k \in 1..Len(log) : log[k].event = "Failed" /\ log[k].text = <<"Unauthorized">>

\* tunnel t lacks public_url or config.addr, or carries one that is no string
Malformed(t) == t.public_url.kind # "string" \/ t.addr.kind # "string"

\* C17: in a parsed response a tunnel lacking public_url or config.addr adds no
\* entry (every key comes from a tunnel carrying both), and every later tunnel
\* of the same response that carries both and has a mapped port is inserted.
C17_MalformedTunnelSkipped ==
    /\ \A n \in DOMAIN urls : \E i \in 1..Len(fetched) : Reports(fetched[i], n)
    /\ \A i \in 1..Len(fetched) : Parsed(fetched[i]) =>
        LET l == fetched[i].body.list
        IN  \A j \in 1..Len(l) : Malformed(l[j]) =>
                \A k \in (j + 1)..Len(l) : \A n \in Names :
                    TunnelOf(l[k], n) => n \in DOMAIN urls /\ urls[n] = LastUrl(n)

C17_Witness ==
    /\ pc = "bind"
    /\ Parsed(fetched[1])
    /\ ~Parsed(fetched[2])
    /\ Len(fetched[1].body.list) = 2
    /\ fetched[1].body.list[1].public_url.kind = "missing"
    /\ TunnelOf(fetched[1].body.list[2], gpt4o)
    /\ urls = [n \in {gpt4o} |-> fetched[1].body.list[2].public_url.s]

\* a step taken once discovery is over
FrozenStep ==
    pc \in {"bind", "post_wait", "exited"} =>
        /\ urls' = urls
        /\ Len(net') > Len(net) =>
            LET q == net'[Len(net')]
            IN  /\ q.method = "POST"
                /\ q.svc \in DOMAIN urls
                /\ q.url = urls[q.svc] \o <<"/webhook">>

\* C18: from the end of discovery on no step changes the mapping, whatever a
\* bind returns and whether a token is missing, and a bind request that goes
\* out carries the URL the mapping holds for its service.
C18_MappingFrozenAfterDiscovery == [][FrozenStep]_vars

C18_Witness ==
    /\ pc = "exited"
    /\ exit = 0
    /\ DOMAIN urls = {gpt4o, mixtral, deepseek}
    /\ Len(answered) = 2
    /\ answered[1].err
    /\ \E k \in 1..Len(log) : log[k].event = "No token"

\* a step taken while the sources are being asked
DiscoveryStep ==
    pc \in {"discover", "get_wait"} =>
        /\ DOMAIN urls \subseteq DOMAIN urls'
        /\ Len(fetched') = Len(fetched) => urls' = urls
        /\ Len(fetched') > Len(fetched) =>
            LET r == fetched'[Len(fetched')]
            IN  /\ (\A n \in Names : ~Reports(r, n)) => urls' = urls
                /\ \A n \in DOMAIN urls : ~Reports(r, n) => urls'[n] = urls[n]

\* C19: during discovery the key set of the mapping never shrinks; a source
\* that fails or lists no matching tunnel leaves the mapping as it was, and
\* any source leaves the entries of the services it does not list as they were.
C19_FailedSourceChangesNothing == [][DiscoveryStep]_vars

C19_Witness ==
    /\ pc = "bind"
    /\ Reports(fetched[1], deepseek)
    /\ Parsed(fetched[2])
    /\ Len(fetched[2].body.list) = 1
    /\ \A n \in Names : ~Reports(fetched[2], n)
    /\ DOMAIN urls = {deepseek}

\* the tunnels carrying both strings that the parsed responses list
WellFormedListed ==
    {t \in UNION {{fetched[i].body.list[j] : j \in 1..Len(fetched[i].body.list)} :
                    i \in {h \in 1..Len(fetched) : Parsed(fetched[h])}} : ~Malformed(t)}

\* C20: the port compared with the table is what follows the last ':' of
\* addr, and all of addr when it has no ':': a tunnel resolves to the service
\* whose port that is, an addr equal to "9977" resolves to gpt4o, and a mapped
\* port anywhere but in the final segment resolves to nothing.
C20_PortIsLastSegment ==
    /\ \A t \in WellFormedListed : \A h \in 1..Len(PORT_TO_NAME) :
        PortIs(t.addr.s, PORT_TO_NAME[h][1]) => PORT_TO_NAME[h][2] \in DOMAIN urls
    /\ (\E t \in WellFormedListed : t.addr.s = <<"9977">>) => gpt4o \in DOMAIN urls
    /\ (\A t \in WellFormedListed : t.addr.s[Len(t.addr.s)] \in {":", "99770"}) => urls = EmptyMap

C20_Witness ==
    /\ pc = "bind"
    /\ Parsed(fetched[1]) /\ Parsed(fetched[2])
    /\ fetched[1].body.list = <<Tunnel(JStr(urlB), JStr(<<"9977">>))>>
    /\ fetched[2].body.list =
        <<Tunnel(JStr(urlB), JStr(<<"9977", ":">>)),
          Tunnel(JStr(urlB), JStr(<<"http", ":", "//localhost", ":", "9966">>))>>
    /\ DOMAIN urls = {gpt4o, deepseek}

====
